---- MODULE Spec2Model ----
(***************************************************************************)
(* The counter store of the Redux Toolkit example:                         *)
(*   src/Redux/CounterSlice.js  createSlice({name: "Counter", ...})         *)
(*   src/Redux/Store.js         configureStore({reducer: {Counter: ...}})   *)
(* The slice's case reducers run inside Immer's produce (createSlice), the  *)
(* store is a Redux store (configureStore -> combineReducers, createStore): *)
(* getState, dispatch and subscribe are modelled as Redux implements them.  *)
(***************************************************************************)
EXTENDS Integers, Sequences, FiniteSets

VARIABLES
    slices,             \* heap of slice objects {value}: reference -> contents
    roots,              \* heap of root State objects {Counter: <slice reference>}
    currentState,       \* the store's current State: a reference into roots
    nextListeners,      \* the store's listeners, in insertion order (listener ids)
    listenerIdCounter,  \* the id the next subscribe() call hands out
    stack,              \* the dispatch calls in progress, innermost last
    history,            \* one record per dispatch call, in call order
    unsubscribed,       \* the listener ids whose unsubscribe() has been called
    held,               \* the snapshot a caller last obtained from getState()
    heldAt,             \* where that getState() call was made
    again,              \* the listener ids whose unsubscribe() was called again
    num,                \* App: the component's local state (the input's content)
    count,              \* App: the counter value the last render displayed
    dirty               \* App: a re-render has been scheduled and not yet run

storeVars == <<slices, roots, currentState, nextListeners, listenerIdCounter, stack,
               history, unsubscribed, held>>

callVars == <<heldAt, again>>

appVars == <<num, count, dirty>>

vars == <<storeVars, callVars, appVars>>

(***************************************************************************)
(* Bounds of the model.                                                    *)
(***************************************************************************)
MaxDispatch == 3
MaxStoreDispatch == 2
MaxListeners == 2
MaxDepth == 2

(***************************************************************************)
(* JavaScript values: integer Numbers, NaN, undefined and Strings (a       *)
(* String is a sequence of one-character strings).                         *)
(***************************************************************************)
Num(i) == [t |-> "number", n |-> i, s |-> <<>>]
NaN == [t |-> "NaN", n |-> 0, s |-> <<>>]
Undefined == [t |-> "undefined", n |-> 0, s |-> <<>>]
Str(chars) == [t |-> "string", n |-> 0, s |-> chars]

IsInteger(v) == v.t = "number"

Digits == <<"0", "1", "2", "3", "4", "5", "6", "7", "8", "9">>

IsDigit(c) == \E d \in 1..10 : Digits[d] = c

DigitValue(c) == (CHOOSE d \in 1..10 : Digits[d] = c) - 1

RECURSIVE NatToString(_)
NatToString(i) ==
    IF i < 10 THEN <<Digits[i + 1]>>
    ELSE NatToString(i \div 10) \o <<Digits[(i % 10) + 1]>>

\* Number::toString for an integer Number
NumberToString(i) == IF i < 0 THEN <<"-">> \o NatToString(-i) ELSE NatToString(i)

\* ToString(v)
ToString(v) ==
    CASE v.t = "number" -> NumberToString(v.n)
      [] v.t = "NaN" -> <<"N", "a", "N">>
      [] v.t = "undefined" -> <<"u", "n", "d", "e", "f", "i", "n", "e", "d">>
      [] v.t = "string" -> v.s

RECURSIVE DigitsToNat(_)
DigitsToNat(chars) ==
    IF chars = <<>> THEN 0
    ELSE 10 * DigitsToNat(SubSeq(chars, 1, Len(chars) - 1))
         + DigitValue(chars[Len(chars)])

AllDigits(chars) == chars # <<>> /\ \A k \in 1..Len(chars) : IsDigit(chars[k])

\* StringToNumber: "" is 0, an optionally signed decimal literal is its value,
\* anything else is NaN
StringToNumber(chars) ==
    IF chars = <<>> THEN Num(0)
    ELSE IF AllDigits(chars) THEN Num(DigitsToNat(chars))
    ELSE IF chars[1] \in {"-", "+"} /\ AllDigits(Tail(chars))
         THEN Num((IF chars[1] = "-" THEN -1 ELSE 1) * DigitsToNat(Tail(chars)))
    ELSE NaN

\* ToNumber(v)
ToNumber(v) ==
    CASE v.t = "number" -> v
      [] v.t = "NaN" -> NaN
      [] v.t = "undefined" -> NaN
      [] v.t = "string" -> StringToNumber(v.s)

\* a + b: string concatenation when either operand is a String, else the sum
\* of the operands' ToNumber (NaN when either is NaN)
JsAdd(a, b) ==
    IF a.t = "string" \/ b.t = "string" THEN Str(ToString(a) \o ToString(b))
    ELSE IF ToNumber(a).t = "NaN" \/ ToNumber(b).t = "NaN" THEN NaN
    ELSE Num(ToNumber(a).n + ToNumber(b).n)

\* a - b: always numeric
JsSub(a, b) ==
    IF ToNumber(a).t = "NaN" \/ ToNumber(b).t = "NaN" THEN NaN
    ELSE Num(ToNumber(a).n - ToNumber(b).n)

(***************************************************************************)
(* The slice (CounterSlice.js).                                            *)
(***************************************************************************)
name_Lowercase == "counter"

name == "Counter"

initialValue == 0

initialState_One == [value |-> Num(initialValue + 1)]

initialState == [value |-> Num(initialValue)]

\* createSlice: the type of the action handled by case reducer `key`
ActionType(sliceName, key) == sliceName \o "/" \o key

\* the action creators of CounterSlice.actions: creator(payload), where
\* creator() carries payload undefined
increment(payload) == [type |-> ActionType(name, "increment"), payload |-> payload]

decrement(payload) == [type |-> ActionType(name, "decrement"), payload |-> payload]

incrementbyfive(payload) ==
    [type |-> ActionType(name, "incrementbyfive"), payload |-> payload]

\* the case reducers, as the recipes' effect on the draft
incrementReducer_AddsPayload(state, action) ==
    [state EXCEPT !.value =
        JsAdd(state.value, IF action.payload = Undefined THEN Num(1) ELSE action.payload)]

incrementReducer(state, action) == [state EXCEPT !.value = JsAdd(state.value, Num(1))]

decrementReducer_ClampsAtZero(state, action) ==
    [state EXCEPT !.value =
        IF IsInteger(state.value) /\ state.value.n <= 0 THEN state.value
        ELSE JsSub(state.value, Num(1))]

decrementReducer_AddsOne(state, action) ==
    [state EXCEPT !.value = JsAdd(state.value, Num(1))]

decrementReducer(state, action) == [state EXCEPT !.value = JsSub(state.value, Num(1))]

\* state.value += actions: the action object itself is added, as its text
incrementbyfiveReducer_AddsAction(state, action) ==
    [state EXCEPT !.value =
        JsAdd(state.value,
              Str(<<"[", "o", "b", "j", "e", "c", "t", " ",
                    "O", "b", "j", "e", "c", "t", "]">>))]

incrementbyfiveReducer_AddsFive(state, action) ==
    [state EXCEPT !.value = JsAdd(state.value, Num(5))]

incrementbyfiveReducer(state, action) ==
    [state EXCEPT !.value = JsAdd(state.value, action.payload)]

CaseReducerKeys == {"increment", "decrement", "incrementbyfive"}

\* does the slice reducer handle this action?
Handles(action) == \E key \in CaseReducerKeys : action.type = ActionType(name, key)

\* the draft after the matching case reducer has run on it
Recipe(state, action) ==
    CASE action.type = ActionType(name, "increment") -> incrementReducer(state, action)
      [] action.type = ActionType(name, "decrement") -> decrementReducer(state, action)
      [] action.type = ActionType(name, "incrementbyfive") ->
            incrementbyfiveReducer(state, action)
      [] OTHER -> state

(***************************************************************************)
(* createSlice wraps the case reducers in Immer's produce: assigning a     *)
(* draft property the value it already has (Object.is) does not mark the   *)
(* draft modified, and an unmodified draft finalizes to the base object    *)
(* itself; a modified one finalizes to a new object and leaves the base    *)
(* untouched. The result is the heap and the reference of the next state.  *)
(***************************************************************************)
SliceReducer_InPlace(heap, ref, action) ==
    [heap |-> [heap EXCEPT ![ref] = Recipe(heap[ref], action)], ref |-> ref]

SliceReducer_AlwaysCopies(heap, ref, action) ==
    [heap |-> Append(heap, Recipe(heap[ref], action)), ref |-> Len(heap) + 1]

SliceReducer(heap, ref, action) ==
    IF Handles(action) /\ Recipe(heap[ref], action) # heap[ref]
    THEN [heap |-> Append(heap, Recipe(heap[ref], action)), ref |-> Len(heap) + 1]
    ELSE [heap |-> heap, ref |-> ref]

(***************************************************************************)
(* The store (Store.js): configureStore({reducer: {Counter: reducer}}).    *)
(* combineReducers calls the reducer of every key with the action and      *)
(* returns the previous root object unless some key's reference changed.   *)
(***************************************************************************)
StoreKey == "Counter"

RootOf(sliceRef) == [k \in {StoreKey} |-> sliceRef]

\* a root reducer run on the State the enclosing round began with
CombinedReducer_FromRoundStart(rootHeap, sliceHeap, rootRef, action) ==
    LET base == IF stack = <<>> THEN rootRef ELSE history[stack[Len(stack)].d].before
        prev == rootHeap[base][StoreKey]
        r == SliceReducer(sliceHeap, prev, action)
    IN  IF r.ref # prev
        THEN [roots |-> Append(rootHeap, RootOf(r.ref)), slices |-> r.heap,
              ref |-> Len(rootHeap) + 1]
        ELSE [roots |-> rootHeap, slices |-> r.heap, ref |-> base]

CombinedReducer(rootHeap, sliceHeap, rootRef, action) ==
    LET prev == rootHeap[rootRef][StoreKey]
        r == SliceReducer(sliceHeap, prev, action)
    IN  IF r.ref # prev
        THEN [roots |-> Append(rootHeap, RootOf(r.ref)), slices |-> r.heap,
              ref |-> Len(rootHeap) + 1]
        ELSE [roots |-> rootHeap, slices |-> r.heap, ref |-> rootRef]

\* the contents of the State object a root reference points to
View(ref) == [k \in DOMAIN roots[ref] |-> slices[roots[ref][k]]]

\* useSelector((state) => state.Counter.value) applied to a State object
CounterValue(ref) == slices[roots[ref]["Counter"]].value

NoSnapshot == [ref |-> 0, seen |-> [k \in {StoreKey} |-> initialState]]

\* no getState() call has been made
NotCalled == [round |-> 0, dispatches |-> 0]

\* App: useState(1)
initialNum == 1

\* createStore: the INIT action makes every slice return its initialState; App
\* has rendered once, with useState(1) and the selected value of that State
Init ==
    /\ slices = <<initialState>>
    /\ roots = <<RootOf(1)>>
    /\ currentState = 1
    /\ nextListeners = <<>>
    /\ listenerIdCounter = 0
    /\ stack = <<>>
    /\ history = <<>>
    /\ unsubscribed = {}
    /\ held = NoSnapshot
    /\ heldAt = NotCalled
    /\ again = {}
    /\ num = Num(initialNum)
    /\ count = initialState.value
    /\ dirty = FALSE

\* caller code is running: the top level, or a listener that has been invoked
\* and has not returned yet
InCallerCode == IF stack = <<>> THEN TRUE ELSE stack[Len(stack)].mode = "listener"

Top == stack[Len(stack)]

ReplaceTop(frame) == [stack EXCEPT ![Len(stack)] = frame]

\* getState() of a store that would replace its State only after the round
GetState_StateBeforeRound ==
    /\ InCallerCode
    /\ held' = LET ref == IF stack = <<>> THEN currentState ELSE history[Top.d].before
               IN  [ref |-> ref, seen |-> View(ref)]
    /\ UNCHANGED <<slices, roots, currentState, nextListeners, listenerIdCounter,
                   stack, history, unsubscribed>>

\* getState()
GetState ==
    /\ InCallerCode
    /\ held' = [ref |-> currentState, seen |-> View(currentState)]
    /\ UNCHANGED <<slices, roots, currentState, nextListeners, listenerIdCounter,
                   stack, history, unsubscribed>>

\* the listeners a notification round iterates: dispatch takes
\* `listeners = currentListeners = nextListeners` once, and subscribe and
\* unsubscribe copy nextListeners before changing it
RoundListeners_Live(frame) == nextListeners

RoundListeners(frame) == frame.listeners

\* dispatch(action), up to the start of its notification round
Dispatch(action) ==
    /\ InCallerCode
    /\ Len(history) < MaxDispatch
    /\ Len(stack) < MaxDepth
    /\ LET r == CombinedReducer(roots, slices, currentState, action)
       IN  /\ roots' = r.roots
           /\ slices' = r.slices
           /\ currentState' = r.ref
           /\ history' = Append(history,
                  [action |-> action, before |-> currentState, after |-> r.ref,
                   atStart |-> nextListeners, goneAtStart |-> unsubscribed,
                   log |-> <<>>, returned |-> FALSE])
    /\ stack' = Append(stack, [d |-> Len(history) + 1, listeners |-> nextListeners,
                               idx |-> 1, mode |-> "notify"])
    /\ UNCHANGED <<nextListeners, listenerIdCounter, unsubscribed, held>>

\* listeners.forEach(listener => listener()): the next listener is called
InvokeListener ==
    /\ stack # <<>>
    /\ Top.mode = "notify"
    /\ Top.idx <= Len(RoundListeners(Top))
    /\ stack' = ReplaceTop([Top EXCEPT !.mode = "listener"])
    /\ history' = [history EXCEPT ![Top.d].log = Append(@, RoundListeners(Top)[Top.idx])]
    /\ UNCHANGED <<slices, roots, currentState, nextListeners, listenerIdCounter,
                   unsubscribed, held>>

\* the listener that was called returns to the round
ListenerReturn ==
    /\ stack # <<>>
    /\ Top.mode = "listener"
    /\ stack' = ReplaceTop([Top EXCEPT !.mode = "notify", !.idx = @ + 1])
    /\ UNCHANGED <<slices, roots, currentState, nextListeners, listenerIdCounter,
                   history, unsubscribed, held>>

\* the round is over: dispatch returns the action
DispatchReturn ==
    /\ stack # <<>>
    /\ Top.mode = "notify"
    /\ Top.idx > Len(RoundListeners(Top))
    /\ stack' = SubSeq(stack, 1, Len(stack) - 1)
    /\ history' = [history EXCEPT ![Top.d].returned = TRUE]
    /\ UNCHANGED <<slices, roots, currentState, nextListeners, listenerIdCounter,
                   unsubscribed, held>>

\* where subscribe() puts the new listener
AddListener_AtFront(listeners, id) == <<id>> \o listeners

AddListener(listeners, id) == Append(listeners, id)

\* subscribe pushing onto the very array the running rounds iterate
Subscribe_IntoRunningRound ==
    /\ InCallerCode
    /\ listenerIdCounter < MaxListeners
    /\ nextListeners' = AddListener(nextListeners, listenerIdCounter)
    /\ listenerIdCounter' = listenerIdCounter + 1
    /\ stack' = [k \in 1..Len(stack) |->
                    IF stack[k].listeners = nextListeners
                    THEN [stack[k] EXCEPT !.listeners = nextListeners']
                    ELSE stack[k]]
    /\ UNCHANGED <<slices, roots, currentState, history, unsubscribed, held>>

\* subscribe(listener): listenerId = listenerIdCounter++
Subscribe ==
    /\ InCallerCode
    /\ listenerIdCounter < MaxListeners
    /\ nextListeners' = AddListener(nextListeners, listenerIdCounter)
    /\ listenerIdCounter' = listenerIdCounter + 1
    /\ UNCHANGED <<slices, roots, currentState, stack, history, unsubscribed, held>>

RemoveListener(listeners, id) ==
    SelectSeq(listeners, LAMBDA x : x # id)

\* unsubscribe without its isSubscribed check, removing by position: a second
\* call finds no position and splices the last listener away
Unsubscribe_SpliceWithoutCheck(id) ==
    /\ InCallerCode
    /\ id < listenerIdCounter
    /\ nextListeners' = IF \E k \in 1..Len(nextListeners) : nextListeners[k] = id
                        THEN RemoveListener(nextListeners, id)
                        ELSE SubSeq(nextListeners, 1, Len(nextListeners) - 1)
    /\ unsubscribed' = unsubscribed \cup {id}
    /\ UNCHANGED <<slices, roots, currentState, listenerIdCounter, stack, history, held>>

\* the unsubscribe function subscribe() returned for listener `id`: a second
\* call finds isSubscribed false and returns
Unsubscribe(id) ==
    /\ InCallerCode
    /\ id < listenerIdCounter
    /\ nextListeners' = IF id \in unsubscribed THEN nextListeners
                        ELSE RemoveListener(nextListeners, id)
    /\ unsubscribed' = unsubscribed \cup {id}
    /\ UNCHANGED <<slices, roots, currentState, listenerIdCounter, stack, history, held>>

(***************************************************************************)
(* Inputs.                                                                 *)
(***************************************************************************)
IntPayloads == {Num(-2), Num(0), Num(1), Num(3)}

OtherPayloads == {Undefined, NaN, Str(<<"5">>), Str(<<>>)}

Payloads == IntPayloads \cup OtherPayloads

\* action types no case reducer of the store handles
UnresolvedTypes == {"counter/increment", "Counter/doesNotExist", "other/increment"}

UnresolvedActions == {[type |-> ty, payload |-> Undefined] : ty \in UnresolvedTypes}

CounterActions ==
    {increment(p) : p \in {Undefined, Num(3), Str(<<"5">>)}}
    \cup {decrement(p) : p \in {Undefined, Num(3), Str(<<"5">>)}}
    \cup {incrementbyfive(p) : p \in Payloads}
    \cup UnresolvedActions

StoreActions ==
    {increment(Undefined), incrementbyfive(Num(0)),
     [type |-> "Counter/doesNotExist", payload |-> Undefined]}

\* the callers are not the App component, and where they call from is not
\* recorded
NoApp == UNCHANGED <<callVars, appVars>>

(***************************************************************************)
(* Spec: the store with its subscribers; listeners may call getState,      *)
(* subscribe, unsubscribe and dispatch while they run.                     *)
(***************************************************************************)
Next ==
    \/ \E action \in StoreActions :
           Len(history) < MaxStoreDispatch /\ Dispatch(action) /\ NoApp
    \/ InvokeListener /\ NoApp
    \/ ListenerReturn /\ NoApp
    \/ DispatchReturn /\ NoApp
    \/ Subscribe /\ NoApp
    \/ \E id \in 0..(MaxListeners - 1) : Unsubscribe(id) /\ NoApp
    \/ GetState /\ NoApp

Spec == Init /\ [][Next]_vars

(***************************************************************************)
(* SpecCounter: the store without subscribers, dispatched every action of  *)
(* CounterActions.                                                         *)
(***************************************************************************)
NextCounter ==
    \/ \E action \in CounterActions : Dispatch(action) /\ NoApp
    \/ DispatchReturn /\ NoApp
    \/ GetState /\ NoApp

SpecCounter == Init /\ [][NextCounter]_vars

(***************************************************************************)
(* SpecUnsubscribe: the store and its subscribers, recording which         *)
(* unsubscribe functions are called more than once (no caller reads the    *)
(* State).                                                                 *)
(***************************************************************************)
\* the unsubscribe function of listener `id`, called for the first time or again
UnsubscribeCall(id) ==
    /\ Unsubscribe(id)
    /\ again' = IF id \in unsubscribed THEN again \cup {id} ELSE again
    /\ UNCHANGED <<heldAt, appVars>>

NextUnsubscribe ==
    \/ \E action \in {increment(Undefined)} :
           Len(history) < MaxStoreDispatch /\ Dispatch(action) /\ NoApp
    \/ InvokeListener /\ NoApp
    \/ ListenerReturn /\ NoApp
    \/ DispatchReturn /\ NoApp
    \/ Subscribe /\ NoApp
    \/ \E id \in 0..(MaxListeners - 1) : UnsubscribeCall(id)

SpecUnsubscribe == Init /\ [][NextUnsubscribe]_vars

(***************************************************************************)
(* SpecGetState: the store and its subscribers, recording where getState() *)
(* is called from (no caller unsubscribes).                                *)
(***************************************************************************)
\* getState(), called at the top level (round 0) or from a listener of the
\* round of dispatch number `round`, after `dispatches` dispatch calls
GetStateCall ==
    /\ GetState
    /\ heldAt' = [round |-> IF stack = <<>> THEN 0 ELSE Top.d,
                  dispatches |-> Len(history)]
    /\ UNCHANGED <<again, appVars>>

NextGetState ==
    \/ \E action \in StoreActions :
           Len(history) < MaxStoreDispatch /\ Dispatch(action) /\ NoApp
    \/ InvokeListener /\ NoApp
    \/ ListenerReturn /\ NoApp
    \/ DispatchReturn /\ NoApp
    \/ Subscribe /\ NoApp
    \/ GetStateCall

SpecGetState == Init /\ [][NextGetState]_vars

(***************************************************************************)
(* SpecApp: the App component on the store. react-redux subscribes to the  *)
(* store when the component mounts; its listener compares the selected     *)
(* value with the one rendered and schedules a re-render when they differ. *)
(* React runs a scheduled re-render before it handles the next event.      *)
(***************************************************************************)
\* what the user can make the number input hold: the digits of a number, or
\* nothing
TypedNumbers == {-2, 5, 10}

InputTexts == {NumberToString(k) : k \in TypedNumbers} \cup {<<>>}

\* num passed on as it is
NumberOf_Unconverted(v) == v

\* Number(num)
NumberOf(v) == ToNumber(v)

\* useSelector's equality check of the selected value (refEquality)
SelectionChanged_Never(rendered, selected) == FALSE

SelectionChanged(rendered, selected) == rendered # selected

Mounted == listenerIdCounter > 0

\* no dispatch is in progress and no re-render is waiting
AppIdle == Mounted /\ stack = <<>> /\ ~dirty

\* the component's effects run: react-redux subscribes to the store
Mount ==
    /\ ~Mounted
    /\ Subscribe
    /\ NoApp

\* <button onClick={() => dispatch(increment())}>
ClickIncrement ==
    /\ AppIdle
    /\ Dispatch(increment(Undefined))
    /\ NoApp

\* <button onClick={() => dispatch(decrement())}>
ClickDecrement ==
    /\ AppIdle
    /\ Dispatch(decrement(Undefined))
    /\ NoApp

\* <button onClick={() => dispatch(incrementbyfive(Number(num)))}>
ClickIncrementBy ==
    /\ AppIdle
    /\ Dispatch(incrementbyfive(NumberOf(num)))
    /\ NoApp

\* react-redux's listener: select from the new State, compare, return
StoreChanged ==
    /\ ListenerReturn
    /\ dirty' = (dirty \/ SelectionChanged(count, CounterValue(currentState)))
    /\ UNCHANGED <<num, count, callVars>>

\* the scheduled re-render: useSelector reads the store's State
Render ==
    /\ dirty
    /\ GetState
    /\ count' = CounterValue(currentState)
    /\ dirty' = FALSE
    /\ UNCHANGED <<num, callVars>>

\* onChange that also dispatches the typed number on every keystroke
ChangeInput_AlsoDispatches(text) ==
    /\ AppIdle
    /\ num' = Str(text)
    /\ Dispatch(incrementbyfive(NumberOf(Str(text))))
    /\ UNCHANGED <<callVars, count, dirty>>

\* onChange={(e) => setnum(e.target.value)}, and the re-render setnum causes
ChangeInput(text) ==
    /\ AppIdle
    /\ num' = Str(text)
    /\ count' = CounterValue(currentState)
    /\ UNCHANGED <<storeVars, callVars, dirty>>

NextApp ==
    \/ Mount
    \/ ClickIncrement
    \/ ClickDecrement
    \/ ClickIncrementBy
    \/ InvokeListener /\ NoApp
    \/ StoreChanged
    \/ DispatchReturn /\ NoApp
    \/ Render
    \/ \E text \in InputTexts : ChangeInput(text)

SpecApp == Init /\ [][NextApp]_vars

(***************************************************************************)
(* Properties.                                                             *)
(***************************************************************************)
Dispatched == 1..Len(history)

\* C1: dispatching incrementbyfive with an integer payload n on the counter
\* state {value: v}, v an integer, yields {value: v + n}, for n negative, zero
\* or positive.
C1_IncrementByAmountAdds ==
    \A i \in Dispatched :
        LET h == history[i] IN
        (/\ h.action.type = "Counter/incrementbyfive"
         /\ IsInteger(h.action.payload)
         /\ IsInteger(CounterValue(h.before)))
        => slices[roots[h.after]["Counter"]]
             = [value |-> Num(CounterValue(h.before).n + h.action.payload.n)]

C1_Witness ==
    \E i \in Dispatched :
        /\ history[i].action = incrementbyfive(Num(-2))
        /\ CounterValue(history[i].before) = Num(1)
        /\ CounterValue(history[i].after) = Num(-1)

\* C2: dispatching increment on the counter state {value: v}, v an integer,
\* yields {value: v + 1} whatever payload the action carries.
C2_IncrementAddsOne ==
    \A i \in Dispatched :
        LET h == history[i] IN
        (h.action.type = "Counter/increment" /\ IsInteger(CounterValue(h.before)))
        => slices[roots[h.after]["Counter"]]
             = [value |-> Num(CounterValue(h.before).n + 1)]

C2_Witness ==
    \E i \in Dispatched :
        /\ history[i].action = increment(Num(3))
        /\ CounterValue(history[i].before) = Num(-2)
        /\ CounterValue(history[i].after) = Num(-1)

\* C3: dispatching decrement on the counter state {value: v}, v an integer,
\* yields {value: v - 1}, also for v <= 0 (no clamping at zero), whatever
\* payload the action carries.
C3_DecrementSubtractsOne ==
    \A i \in Dispatched :
        LET h == history[i] IN
        (h.action.type = "Counter/decrement" /\ IsInteger(CounterValue(h.before)))
        => slices[roots[h.after]["Counter"]]
             = [value |-> Num(CounterValue(h.before).n - 1)]

C3_Witness ==
    \E i \in Dispatched :
        /\ history[i].action = decrement(Str(<<"5">>))
        /\ CounterValue(history[i].before) = Num(-2)
        /\ CounterValue(history[i].after) = Num(-3)

\* C4: from an integer counter value v, dispatching increment and then
\* decrement returns the counter value to v.
C4_IncrementDecrementRoundTrip ==
    \A i \in Dispatched :
        (/\ i + 1 \in Dispatched
         /\ history[i].action.type = "Counter/increment"
         /\ history[i + 1].action.type = "Counter/decrement"
         /\ history[i + 1].before = history[i].after
         /\ IsInteger(CounterValue(history[i].before)))
        => CounterValue(history[i + 1].after) = CounterValue(history[i].before)

C4_Witness ==
    \E i \in Dispatched :
        /\ i + 1 \in Dispatched
        /\ history[i].action = increment(Undefined)
        /\ history[i + 1].action = decrement(Undefined)
        /\ CounterValue(history[i].before) = Num(3)
        /\ CounterValue(history[i].after) = Num(4)
        /\ currentState = history[i + 1].after
        /\ CounterValue(currentState) = Num(3)

\* C5 as stated: a dispatch whose type no case reducer of the store handles
\* leaves the State as it was and invokes no subscriber.
C5_UnresolvedInvokesNoSubscriber ==
    \A i \in Dispatched :
        ~Handles(history[i].action)
        => history[i].after = history[i].before /\ history[i].log = <<>>

\* C5, amended: a dispatch whose type no case reducer of the store handles
\* leaves getState() returning the same State object with the same contents,
\* also when the same action is dispatched twice in a row, and its
\* notification round still invokes every subscriber registered when the
\* dispatch was made, once each.
C5_UnresolvedKeepsStateAndNotifies ==
    \A i \in Dispatched :
        LET h == history[i] IN
        ~Handles(h.action)
        => /\ h.after = h.before
           /\ stack = <<>> /\ i = Len(history) =>
                 currentState = h.before /\ View(currentState) = View(h.before)
           /\ h.returned => h.log = h.atStart
           /\ i + 1 \in Dispatched /\ history[i + 1].action = h.action
              /\ history[i + 1].before = h.after
              => history[i + 1].after = h.before

C5_Witness ==
    \E i \in Dispatched :
        /\ i + 1 \in Dispatched
        /\ ~Handles(history[i].action)
        /\ history[i + 1].action = history[i].action
        /\ history[i].returned /\ history[i + 1].returned
        /\ Len(history[i].log) = 2
        /\ history[i + 1].before = history[i].after
        /\ CounterValue(currentState) = Num(0)

C7_InvalidPayloadCountsAsZero ==
    \A i \in Dispatched :
        LET h == history[i] IN
        (/\ h.action.type = "Counter/incrementbyfive"
         /\ ~IsInteger(h.action.payload)
         /\ IsInteger(CounterValue(h.before)))
        => /\ IsInteger(CounterValue(h.after))
           /\ CounterValue(h.after) = CounterValue(h.before)

IsIncreasing(seq) == \A j, k \in 1..Len(seq) : j < k => seq[j] < seq[k]

InSeq(seq, x) == \E k \in 1..Len(seq) : seq[k] = x

\* C8: a notification round invokes subscribers in the order in which they
\* were registered (listener ids are handed out in registration order), and
\* never one whose unsubscribe was called before the dispatch began.
C8_RegistrationOrderAndNoUnsubscribed ==
    \A i \in Dispatched :
        /\ IsIncreasing(history[i].log)
        /\ \A id \in history[i].goneAtStart : ~InSeq(history[i].log, id)

C8_Witness ==
    \E i, j \in Dispatched :
        /\ history[i].returned /\ history[i].log = <<0, 1>>
        /\ history[j].returned /\ history[j].goneAtStart = {0}
        /\ history[j].log = <<1>>

\* C9: a dispatch that a case reducer handles and whose resulting slice state
\* is another object than the prior one replaces the State object, and by the
\* time it returns its round has invoked every subscriber registered when the
\* round began exactly once, in order.
C9_ChangeReplacesStateAndNotifiesAll ==
    \A i \in Dispatched :
        LET h == history[i] IN
        (Handles(h.action) /\ roots[h.after]["Counter"] # roots[h.before]["Counter"])
        => /\ h.after # h.before
           /\ \A j \in 1..(i - 1) : h.after \notin {history[j].before, history[j].after}
           /\ h.returned => h.log = h.atStart

C9_Witness ==
    \E i \in Dispatched :
        /\ history[i].action = increment(Undefined)
        /\ history[i].returned
        /\ history[i].after # history[i].before
        /\ history[i].log = <<0, 1>>
        /\ nextListeners = <<>>

\* C10 as stated: every dispatch that a case reducer handles produces a new
\* State object.
C10_EveryResolvedDispatchNewState ==
    \A i \in Dispatched :
        Handles(history[i].action) => history[i].after # history[i].before

\* C10, amended: every dispatch that a case reducer handles and that changes
\* the counter value produces a new State object, one that no earlier
\* getState() returned, and a State object that getState() returned keeps the
\* contents it had then.
C10_ChangeMakesNewStateNoMutation ==
    /\ \A i \in Dispatched :
          LET h == history[i] IN
          (Handles(h.action) /\ CounterValue(h.after) # CounterValue(h.before))
          => /\ h.after # h.before
             /\ \A j \in 1..(i - 1) :
                   h.after \notin {history[j].before, history[j].after}
    /\ held.ref # 0 => View(held.ref) = held.seen

C10_Witness ==
    /\ held.ref = 1
    /\ held.seen = [Counter |-> [value |-> Num(0)]]
    /\ Len(history) = 3
    /\ \A i \in Dispatched : history[i].after # history[i].before
    /\ CounterValue(currentState) = Num(0)
    /\ currentState # held.ref

\* C11: the unsubscribe function of a subscription removes that subscription
\* and no other, and calling it again changes nothing: the listeners are
\* always exactly the subscriptions whose unsubscribe function was never
\* called, in registration order, and no unsubscribe call changes the State.
C11_UnsubscribeOnceThenNoOp ==
    /\ [](/\ \A id \in 0..(listenerIdCounter - 1) :
                InSeq(nextListeners, id) <=> id \notin unsubscribed
          /\ IsIncreasing(nextListeners)
          /\ again \subseteq unsubscribed)
    /\ [][\A id \in 0..(MaxListeners - 1) :
             UnsubscribeCall(id)
             => /\ UNCHANGED <<slices, roots, currentState>>
                /\ id \in unsubscribed => nextListeners' = nextListeners]_vars

C11_Witness ==
    /\ listenerIdCounter = 2
    /\ unsubscribed = {0}
    /\ again = {0}
    /\ nextListeners = <<1>>
    /\ Len(history) = 1
    /\ currentState = history[1].after

\* C12: getState() changes nothing in the store, and a call made from a
\* listener during the round of a dispatch returns the State object the
\* latest dispatch produced, which is that dispatch's own result unless a
\* listener has dispatched again since; it is never the State from before the
\* dispatch when the dispatch replaced it.
C12_GetStateInListenerSeesNewState ==
    /\ [](/\ heldAt.dispatches > 0 =>
                /\ held.ref = history[heldAt.dispatches].after
                /\ held.seen = View(held.ref)
          /\ heldAt.round > 0 =>
                /\ heldAt.dispatches >= heldAt.round
                /\ held.ref >= history[heldAt.round].after
                /\ history[heldAt.round].after # history[heldAt.round].before
                   => held.ref # history[heldAt.round].before)
    /\ [][GetStateCall =>
             UNCHANGED <<slices, roots, currentState, nextListeners,
                         listenerIdCounter, stack, history, unsubscribed>>]_vars

C12_Witness ==
    /\ heldAt = [round |-> 1, dispatches |-> 1]
    /\ history[1].action = increment(Undefined)
    /\ ~history[1].returned
    /\ held.ref = history[1].after
    /\ held.seen = [Counter |-> [value |-> Num(1)]]
    /\ View(history[1].before) = [Counter |-> [value |-> Num(0)]]

SliceAt(ref) == slices[roots[ref]["Counter"]]

C14_DisplayedCountIsStoreValue ==
    (Mounted /\ stack = <<>> /\ ~dirty)
    => /\ DOMAIN roots[currentState] = {"Counter"}
       /\ count = slices[roots[currentState]["Counter"]].value

C14_Witness ==
    /\ Len(history) = 3
    /\ history[1].action = increment(Undefined)
    /\ history[2].action = incrementbyfive(Num(5))
    /\ history[3].action = decrement(Undefined)
    /\ stack = <<>> /\ ~dirty
    /\ count = Num(5)
    /\ held.ref = currentState

IsPrefix(a, b) == Len(a) <= Len(b) /\ a = SubSeq(b, 1, Len(a))

Increments == {i \in Dispatched : history[i].action.type = "Counter/increment"}

\* C15: a dispatch made by a listener runs to its end, notification round
\* included, while the outer round waits in that listener: only the innermost
\* round advances, and a dispatch returns only after every later one has.
\* Every round walks the listeners registered when it began, and every
\* dispatch starts from the State the one before produced, so the final value
\* counts every increment once.
C15_NestedDispatchCompletesFirst ==
    /\ [](/\ \A k \in 1..(Len(stack) - 1) :
                /\ stack[k].mode = "listener"
                /\ stack[k].d < stack[k + 1].d
          /\ \A i \in Dispatched :
                /\ IsPrefix(history[i].log, history[i].atStart)
                /\ history[i].returned => history[i].log = history[i].atStart
                /\ i > 1 => history[i].before = history[i - 1].after
          /\ history # <<>> => currentState = history[Len(history)].after
          /\ CounterValue(currentState) = Num(Cardinality(Increments)))
    /\ [][\A i \in Dispatched :
             /\ history'[i].log # history[i].log => stack[Len(stack)].d = i
             /\ history'[i].returned /\ ~history[i].returned
                => \A j \in Dispatched : j > i => history[j].returned]_vars

C15_Witness ==
    /\ Len(history) = 2
    /\ Len(stack) = 1
    /\ ~history[1].returned
    /\ history[2].returned
    /\ history[1].action = increment(Undefined)
    /\ history[2].action = increment(Undefined)
    /\ history[2].log = <<0, 1>>
    /\ history[1].log = <<0, 1>>
    /\ CounterValue(currentState) = Num(2)

\* C16: a round never invokes a subscriber that was not registered when the
\* round began, so one registered by a listener during the round is not
\* invoked in it; a round that began after the registration invokes it.
C16_LateSubscriberWaitsForNextRound ==
    \A i \in Dispatched :
        \A id \in 0..(listenerIdCounter - 1) :
            /\ ~InSeq(history[i].atStart, id) => ~InSeq(history[i].log, id)
            /\ (history[i].returned /\ InSeq(history[i].atStart, id))
               => InSeq(history[i].log, id)

C16_Witness ==
    /\ Len(history) = 2
    /\ Len(stack) = 1
    /\ stack[1].mode = "notify" /\ stack[1].idx = 2
    /\ history[1].atStart = <<0>>
    /\ history[1].log = <<0>>
    /\ nextListeners = <<0, 1>>
    /\ history[2].returned
    /\ history[2].atStart = <<0, 1>>
    /\ history[2].log = <<0, 1>>

\* the input field shows the number k: num is still the initial Number, or
\* the text the browser gives for k
Shows(k) == num = Num(k) \/ num = Str(NumberToString(k))

\* C17: num is the Number 1 until something is typed, and a click on the
\* "increment by" button while the input shows the number k dispatches
\* incrementbyfive with payload k and increases the counter by exactly k.
C17_IncrementByAddsShownNumber ==
    /\ [](num.t # "string" => num = Num(initialNum))
    /\ [][(/\ Len(history') = Len(history) + 1
           /\ history'[Len(history')].action.type = "Counter/incrementbyfive")
          => \A k \in TypedNumbers \cup {initialNum} :
                Shows(k)
                => /\ history'[Len(history')].action
                        = [type |-> "Counter/incrementbyfive", payload |-> Num(k)]
                   /\ IsInteger(CounterValue(currentState))
                   /\ CounterValue(currentState)'
                        = Num(CounterValue(currentState).n + k)]_vars

C17_Witness ==
    /\ Len(history) = 2
    /\ history[1].action = incrementbyfive(Num(1))
    /\ CounterValue(history[1].after) = Num(1)
    /\ history[2].action = incrementbyfive(Num(10))
    /\ num = Str(<<"1", "0">>)
    /\ stack = <<>> /\ ~dirty
    /\ count = Num(11)

\* the dispatches so far are increment, decrement and incrementbyfive only,
\* and every incrementbyfive carries an integer payload
IntegerCounterHistory ==
    \A d \in Dispatched :
        /\ Handles(history[d].action)
        /\ history[d].action.type = "Counter/incrementbyfive"
           => IsInteger(history[d].action.payload)

OfType(type) == {d \in Dispatched : history[d].action.type = type}

RECURSIVE PayloadSum(_)
PayloadSum(ds) ==
    IF ds = {} THEN 0
    ELSE LET d == CHOOSE x \in ds : TRUE
         IN  history[d].action.payload.n + PayloadSum(ds \ {d})

\* C19: after increment, decrement and incrementbyfive dispatches with
\* integer payloads, the counter is 0 + (number of increments) - (number of
\* decrements) + (sum of the payloads), a value that depends only on which
\* actions were dispatched and not on their order.
C19_ValueIsInitialPlusContributions ==
    IntegerCounterHistory
    => CounterValue(currentState)
         = Num(initialValue + Cardinality(OfType("Counter/increment"))
                 - Cardinality(OfType("Counter/decrement"))
                 + PayloadSum(OfType("Counter/incrementbyfive")))

C19_Witness ==
    /\ Len(history) = 3
    /\ history[1].action = decrement(Undefined)
    /\ history[2].action = incrementbyfive(Num(-2))
    /\ history[3].action = increment(Undefined)
    /\ CounterValue(currentState) = Num(-2)

\* C20: while only increment, decrement and incrementbyfive with integer
\* payloads have been dispatched, the State has the single key Counter, its
\* value is a record with the single field value, that field holds an
\* integer, and every dispatch left the keys of the State and of the Counter
\* record as they were.
C20_StateShapeIsKept ==
    IntegerCounterHistory
    => /\ DOMAIN roots[currentState] = {"Counter"}
       /\ DOMAIN SliceAt(currentState) = {"value"}
       /\ IsInteger(CounterValue(currentState))
       /\ \A d \in Dispatched :
            /\ DOMAIN roots[history[d].after] = DOMAIN roots[history[d].before]
            /\ DOMAIN SliceAt(history[d].after) = DOMAIN SliceAt(history[d].before)
            /\ IsInteger(CounterValue(history[d].after))

C20_Witness ==
    /\ IntegerCounterHistory
    /\ Len(history) = 3
    /\ history[1].action = incrementbyfive(Num(3))
    /\ history[2].action.type = "Counter/decrement"
    /\ history[3].action = incrementbyfive(Num(-2))
    /\ View(currentState) = [Counter |-> [value |-> Num(0)]]

\* C21: a step that changes num (typing in the input field) dispatches no
\* action, leaves the store's State, its heap and its listeners as they were
\* and starts or advances no notification round; and a step that dispatches
\* an action or belongs to a notification round leaves num as it was.
C21_TypingChangesOnlyNum ==
    [][/\ num' # num
          => /\ history' = history
             /\ currentState' = currentState
             /\ roots' = roots
             /\ slices' = slices
             /\ nextListeners' = nextListeners
             /\ stack' = stack
             /\ stack = <<>>
       /\ (history' # history \/ stack' # stack) => num' = num]_vars

C21_Witness ==
    /\ Len(history) = 2
    /\ history[1].action = incrementbyfive(Num(initialNum))
    /\ history[2].action = incrementbyfive(Num(-2))
    /\ history[2].returned
    /\ num = Str(<<"5">>)
    /\ stack = <<>>
    /\ CounterValue(currentState) = Num(initialValue + initialNum - 2)
====
